---- MODULE Spec2Model ----
(***************************************************************************)
(* A model of the pulldown-latex streaming parser: the driver of           *)
(* src/parser.rs (Parser::next, current_string, check_suffixes,            *)
(* handle_argument, error_with_context) together with the character and    *)
(* primitive dispatchers of src/parser/primitives.rs.  Two further         *)
(* specifications apply single functions to bounded sets of arguments:     *)
(* OperatorSpec (is_operator of src/parse/operator_table.rs) and           *)
(* ContextSpec (error_with_context on inputs of multi-byte characters).    *)
(*                                                                         *)
(* The input is a sequence of one-character strings.  A string view        *)
(* (&'a str into the input) is a pair of offsets s..e, 0-based, e          *)
(* exclusive.  The instruction stack, the staging buffer and the produced  *)
(* items are sequences of records of one shape:                            *)
(*   t  "ev" (an event), "sub" (a pending input), "err", "none"            *)
(*   k  the event kind / error kind                                        *)
(*   c  the variant or character payload                                   *)
(*   d  a second payload (script position, delimiters, Char/Str)           *)
(*   s,e a string view (Number, Text, pending input, error window)         *)
(*   al the allows-alignment flag of a pending input; for an error,        *)
(*      whether a context is present                                       *)
(*   n  for an error, the marker offset inside the window                  *)
(***************************************************************************)
EXTENDS Integers, Sequences, FiniteSets, TLC

VARIABLES input, instruction_stack, buffer, group_stack, results, atom, lookup, context

vars == <<input, instruction_stack, buffer, group_stack, results, atom, lookup, context>>

(***************************************************************************)
(* Bounds of the model.                                                    *)
(***************************************************************************)
\* the longest input built from the core fragments, counted in fragments
MaxFrags == 3
\* the longest input built from the script fragments, counted in fragments
MaxScriptFrags == 5
\* how many end-of-sequence items the consumer records before it stops polling
MaxNone == 1
\* the longest input, in characters, error_with_context is called with
MaxChars == 5

(***************************************************************************)
(* Records.                                                                *)
(***************************************************************************)
Rec(t, k, c, d, s, e, al, n) ==
  [t |-> t, k |-> k, c |-> c, d |-> d, s |-> s, e |-> e, al |-> al, n |-> n]

Ev(k, c, d) == Rec("ev", k, c, d, 0, 0, FALSE, 0)
EvView(k, c, d, s, e) == Rec("ev", k, c, d, s, e, FALSE, 0)
\* Instruction::Substring / I::SubGroup { content, allows_alignment }
SubGroup(s, e, al) == Rec("sub", "", "", "", s, e, al, 0)
NoneItem == Rec("none", "", "", "", 0, 0, FALSE, 0)

Last(q) == q[Len(q)]
Front(q) == SubSeq(q, 1, Len(q) - 1)
RECURSIVE Rev(_)
Rev(q) == IF q = <<>> THEN <<>> ELSE Append(Rev(Tail(q)), Head(q))

(***************************************************************************)
(* Characters.                                                             *)
(***************************************************************************)
Char(i) == input[i + 1]
Digits == {"0", "1", "2", "3", "4", "5", "6", "7", "8", "9"}
Letters ==
  {"a", "b", "c", "d", "e", "f", "g", "h", "i", "j", "k", "l", "m", "n", "o",
   "p", "q", "r", "s", "t", "u", "v", "w", "x", "y", "z", "B", "V"}
IsWhitespace(c) == c = " "
IsNumberChar(c) == c \in Digits \cup {".", ","}
Slice(s, e) == SubSeq(input, s + 1, e)

\* str::trim_start on the view s..e: the offset of its first non-blank
trim_start(s, e) ==
  CHOOSE i \in s..e :
    /\ i = e \/ ~IsWhitespace(Char(i))
    /\ \A j \in s..(i - 1) : IsWhitespace(Char(j))

\* the end of the longest run of characters of class P(_) that starts at s
RunEnd(s, e, P(_)) ==
  CHOOSE i \in s..e :
    /\ i = e \/ ~P(Char(i))
    /\ \A j \in s..(i - 1) : P(Char(j))

\* str::starts_with for the view s..e and the literal m
StartsWith(s, e, m) == s + Len(m) <= e /\ Slice(s, s + Len(m)) = m

(***************************************************************************)
(* The lexer (lex.rs).  Each operation reads the view s..e and returns     *)
(* the cursor after what it consumed in "rest"; on failure the cursor is   *)
(* left where it was.                                                      *)
(***************************************************************************)
\* lex::token: skip blanks, then a control sequence or one character
token(s, e) ==
  LET At(p) ==
        IF p = e
          THEN [err |-> "EndOfInput", cs |-> FALSE, p |-> p, ns |-> p, ne |-> p, rest |-> s]
        ELSE IF Char(p) = "\\" THEN
          IF p + 1 = e
            THEN [err |-> "EndOfInput", cs |-> TRUE, p |-> p, ns |-> p, ne |-> p, rest |-> s]
          ELSE IF Char(p + 1) \in Letters
            THEN [err |-> "OK", cs |-> TRUE, p |-> p, ns |-> p + 1,
                  ne |-> RunEnd(p + 1, e, LAMBDA c : c \in Letters),
                  rest |-> trim_start(RunEnd(p + 1, e, LAMBDA c : c \in Letters), e)]
          ELSE [err |-> "OK", cs |-> TRUE, p |-> p, ns |-> p + 1, ne |-> p + 2,
                rest |-> p + 2]
        ELSE [err |-> "OK", cs |-> FALSE, p |-> p, ns |-> p, ne |-> p + 1, rest |-> p + 1]
  IN At(trim_start(s, e))

\* the offset of the closing marker that matches an already consumed opening
\* marker, scanning i..e at nesting depth; -1 when there is none
RECURSIVE ScanClose(_, _, _, _, _)
ScanClose(i, e, depth, open, close) ==
  IF i >= e THEN -1
  ELSE IF StartsWith(i, e, close) THEN
    IF depth = 0 THEN i ELSE ScanClose(i + Len(close), e, depth - 1, open, close)
  ELSE IF StartsWith(i, e, open) THEN ScanClose(i + Len(open), e, depth + 1, open, close)
  ELSE ScanClose(i + 1, e, depth, open, close)

\* lex::group_content: the view up to the matching closing marker, which is
\* consumed
group_content(s, e, open, close) ==
  LET Closed(m) ==
        IF m < 0 THEN [err |-> "EndOfInput", s |-> s, e |-> s, rest |-> s]
        ELSE [err |-> "OK", s |-> s, e |-> m, rest |-> m + Len(close)]
  IN Closed(ScanClose(s, e, 0, open, close))

\* lex::argument: Argument::Group, g the result of lex::group_content after
\* the brace at p
ArgumentGroup(s, p, g) ==
  [err |-> g.err, group |-> TRUE, s |-> g.s, e |-> g.e, cs |-> FALSE, p |-> p,
   rest |-> IF g.err = "OK" THEN g.rest ELSE s]

\* lex::argument: Argument::Token, tk the result of lex::token
ArgumentToken(tk) ==
  [err |-> tk.err, group |-> FALSE, s |-> tk.ns, e |-> tk.ne, cs |-> tk.cs, p |-> tk.p,
   rest |-> tk.rest]

\* lex::argument: a brace group (Argument::Group) or one token (Argument::Token)
argument(s, e) ==
  IF trim_start(s, e) < e /\ Char(trim_start(s, e)) = "{"
    THEN ArgumentGroup(s, trim_start(s, e),
                       group_content(trim_start(s, e) + 1, e, <<"{">>, <<"}">>))
  ELSE ArgumentToken(token(s, e))

\* lex::optional_argument: g is the result of lex::group_content after the [
OptionalGroup(s, g) ==
  [err |-> g.err, some |-> TRUE, s |-> g.s, e |-> g.e,
   rest |-> IF g.err = "OK" THEN g.rest ELSE s]

\* lex::optional_argument: the body of [ ... ], or none when no [ follows
optional_argument(s, e) ==
  IF trim_start(s, e) < e /\ Char(trim_start(s, e)) = "["
    THEN OptionalGroup(s, group_content(trim_start(s, e) + 1, e, <<"[">>, <<"]">>))
  ELSE [err |-> "OK", some |-> FALSE, s |-> s, e |-> s, rest |-> s]

(***************************************************************************)
(* Classification tables (tables.rs), as far as the model's alphabet goes. *)
(***************************************************************************)
is_binary(c) == c \in {"+"}
is_relation(c) == c \in {"="}
\* char_delimiter_map: the characters that are delimiters, with their type
char_delimiter_map(c) ==
  CASE c = "(" -> "Open"
    [] c = "[" -> "Open"
    [] c = ")" -> "Close"
    [] c = "]" -> "Close"
    [] c = "|" -> "Fence"
    [] OTHER -> "None"

\* lex::delimiter: tk is the result of lex::token
DelimiterToken(s, tk) ==
  IF tk.err # "OK" THEN [err |-> tk.err, c |-> "", rest |-> s]
  ELSE IF ~tk.cs /\ char_delimiter_map(Char(tk.p)) # "None"
    THEN [err |-> "OK", c |-> Char(tk.p), rest |-> tk.rest]
  ELSE [err |-> "Delimiter", c |-> "", rest |-> s]

\* lex::delimiter: the next token, mapped to a delimiter
delimiter(s, e) == DelimiterToken(s, token(s, e))

(***************************************************************************)
(* The parser state: st.is the instruction stack (its top is the last      *)
(* element), st.buf the staging buffer, st.gs the group stack, st.aa the   *)
(* state flag allows_alignment, st.at the record of the atom being parsed. *)
(***************************************************************************)
Ok(st) == [st |-> st, err |-> "OK"]
Fail(st, kind) == [st |-> st, err |-> kind]

\* self.content: the pending input on top of the instruction stack
Content(st) == Last(st.is)
SetCursor(st, s) == [st EXCEPT !.is[Len(st.is)].s = s]
Stage(st, instrs) == [st EXCEPT !.buf = st.buf \o instrs]

\* ordinary, binary, relation: the leaf events built by the helpers
ordinary(c) == Ev("Ordinary", c, "")
binary(c) == Ev("BinaryOp", c, "")
relation(c) == Ev("Relation", c, "")

RECURSIVE handle_char_token(_, _), handle_primitive(_, _, _), handle_argument(_, _)

\* handle_char_token for the '_' and '^' tokens: an empty group is staged and
\* the cursor is moved back onto the character (self.content = token.as_str())
ScriptCharToken(st, p) ==
  Ok(Stage(SetCursor(Stage(st, <<Ev("Begin", "Normal", "")>>), p), <<Ev("End", "", "")>>))

\* handle_char_token for '&', '\\' and "cr" read while alignment is not allowed:
\* the guarded arm is skipped and the token falls through to the later arms
AmpersandNotAllowed(st, c) == Ok(Stage(st, <<ordinary(c)>>))

\* the group g, the result of lex::group_content, is scheduled as a pending
\* input between Begin(Normal) and End
StageGroup(st, g) ==
  IF g.err # "OK" THEN Fail(st, g.err)
  ELSE Ok(Stage(SetCursor(st, g.rest),
                <<Ev("Begin", "Normal", ""), SubGroup(g.s, g.e, FALSE), Ev("End", "", "")>>))

\* handle_char_token for '{': the body up to the matching '}' is scheduled as
\* a pending input between Begin(Normal) and End
BraceCharToken(st) ==
  StageGroup(st, group_content(Content(st).s, Content(st).e, <<"{">>, <<"}">>))

\* handle_char_token for a digit: the run of digits, '.' and ',' that starts at
\* the token, less one trailing separator
NumberCharToken(st, p) ==
  LET Number(len) ==
        Ok(Stage(SetCursor(st, p + len), <<EvView("Number", "", "Str", p, p + len)>>))
      Run(len0) == Number(IF Char(p + len0 - 1) \in {".", ","} THEN len0 - 1 ELSE len0)
  IN Run(RunEnd(p + 1, Content(st).e, IsNumberChar) - p)

\* handle_char_token: p is the offset of the character token in the input
handle_char_token(st, p) ==
  LET c == Char(p) IN
  CASE c \in {"_", "^"} -> ScriptCharToken(st, p)
    [] c = "$" -> Fail(st, "MathShift")
    [] c = "#" -> Fail(st, "HashSign")
    [] c = "&" /\ st.aa -> Ok(Stage(st, <<Ev("Alignment", "", "")>>))
    [] c = "{" -> BraceCharToken(st)
    [] c = "}" -> Fail(st, "UnbalancedGroup(None)")
    [] c = "~" -> Ok(Stage(st, <<Ev("Text", "&nbsp;", "")>>))
    [] c \in Digits -> NumberCharToken(st, p)
    [] c \in {".", ",", ";"} -> Ok(Stage(st, <<Ev("Punctuation", c, "")>>))
    [] c = "'" -> Ok(Stage(st, <<ordinary("prime")>>))
    [] c = "-" -> Ok(Stage(st, <<binary("minus")>>))
    [] c = "*" -> Ok(Stage(st, <<binary("ast")>>))
    [] OTHER ->
         IF is_binary(c) THEN Ok(Stage(st, <<binary(c)>>))
         ELSE IF is_relation(c) THEN Ok(Stage(st, <<relation(c)>>))
         ELSE IF char_delimiter_map(c) = "Fence" THEN Ok(Stage(st, <<ordinary(c)>>))
         ELSE IF char_delimiter_map(c) # "None"
           THEN Ok(Stage(st, <<Ev("Delimiter", c, char_delimiter_map(c))>>))
         ELSE IF c = "&" THEN AmpersandNotAllowed(st, c)
         ELSE Ok(Stage(st, <<ordinary(c)>>))

(***************************************************************************)
(* Control sequence and environment names, as character sequences.         *)
(***************************************************************************)
N_alpha == <<"a", "l", "p", "h", "a">>
N_relax == <<"r", "e", "l", "a", "x">>
N_frac == <<"f", "r", "a", "c">>
N_sqrt == <<"s", "q", "r", "t">>
N_bar == <<"b", "a", "r">>
N_hat == <<"h", "a", "t">>
N_underline == <<"u", "n", "d", "e", "r", "l", "i", "n", "e">>
N_left == <<"l", "e", "f", "t">>
N_right == <<"r", "i", "g", "h", "t">>
N_mathbf == <<"m", "a", "t", "h", "b", "f">>
N_not == <<"n", "o", "t">>
N_begin == <<"b", "e", "g", "i", "n">>
N_end == <<"e", "n", "d">>
N_begingroup == <<"b", "e", "g", "i", "n", "g", "r", "o", "u", "p">>
N_endgroup == <<"e", "n", "d", "g", "r", "o", "u", "p">>
N_cr == <<"c", "r">>
N_array == <<"a", "r", "r", "a", "y">>
N_matrix == <<"m", "a", "t", "r", "i", "x">>
N_smallmatrix == <<"s", "m", "a", "l", "l", "m", "a", "t", "r", "i", "x">>
N_pmatrix == <<"p", "m", "a", "t", "r", "i", "x">>
N_bmatrix == <<"b", "m", "a", "t", "r", "i", "x">>
N_vmatrix == <<"v", "m", "a", "t", "r", "i", "x">>
N_Vmatrix == <<"V", "m", "a", "t", "r", "i", "x">>
N_Bmatrix == <<"B", "m", "a", "t", "r", "i", "x">>
N_cases == <<"c", "a", "s", "e", "s">>
N_align == <<"a", "l", "i", "g", "n">>
N_sin == <<"s", "i", "n">>
N_color == <<"c", "o", "l", "o", "r">>
N_textcolor == <<"t", "e", "x", "t", "c", "o", "l", "o", "r">>
N_colorbox == <<"c", "o", "l", "o", "r", "b", "o", "x">>
N_fcolorbox == <<"f", "c", "o", "l", "o", "r", "b", "o", "x">>
N_bmod == <<"b", "m", "o", "d">>
N_overset == <<"o", "v", "e", "r", "s", "e", "t">>
N_underset == <<"u", "n", "d", "e", "r", "s", "e", "t">>
N_backslash == <<"\\">>
N_space == <<" ">>
M_left == <<"\\">> \o N_left
M_right == <<"\\">> \o N_right
M_begin(env) == <<"\\">> \o N_begin \o <<"{">> \o env \o <<"}">>
M_end(env) == <<"\\">> \o N_end \o <<"{">> \o env \o <<"}">>

\* Parser::handle_argument: a token is dispatched; a group is staged between
\* BeginGroup and EndGroup and a Brace is pushed on the group stack
handle_argument(st, arg) ==
  IF arg.group THEN
    Ok(Stage([st EXCEPT !.gs = Append(st.gs, "Brace")],
             <<Ev("BeginGroup", "", ""), SubGroup(arg.s, arg.e, FALSE), Ev("EndGroup", "", "")>>))
  ELSE IF arg.cs THEN handle_primitive(st, arg.s, arg.e)
  ELSE handle_char_token(st, arg.p)

\* self.handle_argument(argument)?, a the result of lex::argument, after the
\* instructions staged before the argument
StagedArgument(st, a, instrs) ==
  IF a.err # "OK" THEN Fail(st, a.err)
  ELSE handle_argument(Stage(SetCursor(st, a.rest), instrs), a)

\* the instructions staged after an argument was handled with result r
ThenStage(r, instrs) == IF r.err # "OK" THEN r ELSE Ok(Stage(r.st, instrs))

\* lex::argument(&mut self.content) followed by self.handle_argument
ReadArgument(st) == StagedArgument(st, argument(Content(st).s, Content(st).e), <<>>)

\* accent with the glyph staged before the argument
accent_GlyphFirst(st, glyph, stretchy) ==
  StagedArgument(st, argument(Content(st).s, Content(st).e),
                 <<Ev("Script", "Superscript", "AboveBelow"),
                   Ev("Ordinary", glyph, IF stretchy THEN "stretchy" ELSE "")>>)

\* accent: the Script marker, the argument, then the accent glyph
accent(st, glyph, stretchy) ==
  ThenStage(StagedArgument(st, argument(Content(st).s, Content(st).e),
                           <<Ev("Script", "Superscript", "AboveBelow")>>),
            <<Ev("Ordinary", glyph, IF stretchy THEN "stretchy" ELSE "")>>)

\* underscript: as accent, with a Subscript marker and a stretchy glyph
underscript(st, glyph) ==
  ThenStage(StagedArgument(st, argument(Content(st).s, Content(st).e),
                           <<Ev("Script", "Subscript", "AboveBelow")>>),
            <<Ev("Ordinary", glyph, "stretchy")>>)

\* the second self.handle_argument(..)? of fraction_like, after the first
\* returned r1
ThenReadArgument(r1) == IF r1.err # "OK" THEN r1 ELSE ReadArgument(r1.st)

\* fraction_like: Visual(Fraction), the numerator, the denominator
fraction_like(st) == ThenReadArgument(ReadArgument(Stage(st, <<Ev("Visual", "Fraction", "")>>)))

\* handle_primitive "overset" | "underset": the Script marker, then the two
\* arguments in the order they are written
set_script(st, ty) ==
  ThenReadArgument(ReadArgument(Stage(st, <<Ev("Script", ty, "AboveBelow")>>)))

\* font_group, lines 1504-1518: the argument a inside the opened group st1
FontArgument(st1, a) ==
  ThenStage(IF a.group THEN Ok(Stage(st1, <<SubGroup(a.s, a.e, FALSE)>>))
            ELSE IF a.cs THEN handle_primitive(st1, a.s, a.e)
            ELSE handle_char_token(st1, a.p),
            <<Ev("End", "", "")>>)

\* font_group, lines 1502-1510: a is the result of lex::argument
FontOpen(st, font, a) ==
  IF a.err # "OK" THEN Fail(st, a.err)
  ELSE FontArgument(Stage(SetCursor(st, a.rest),
                          <<Ev("Begin", "Internal", ""), Ev("StateChange", "Font", font)>>),
                    a)

\* font_group: Begin(Internal), the font change, the argument, End
font_group(st, font) == FontOpen(st, font, argument(Content(st).s, Content(st).e))

\* the delimiter of \left or \right, dl the result of lex::delimiter
MappedDelimiter(st, dl) ==
  IF dl.err # "OK" THEN [st |-> st, err |-> dl.err, c |-> ""]
  ELSE [st |-> SetCursor(st, dl.rest), err |-> "OK", c |-> dl.c]

\* the opening or closing delimiter of \left .. \right: '.' is no delimiter
LeftRightDelimiter(st) ==
  IF StartsWith(Content(st).s, Content(st).e, <<".">>)
    THEN [st |-> SetCursor(st, Content(st).s + 1), err |-> "OK", c |-> "."]
  ELSE MappedDelimiter(st, delimiter(Content(st).s, Content(st).e))

\* LeftClosing with the body scheduled with alignment allowed
LeftClosing_AlignmentAllowed(o, g, cl) ==
  IF cl.err # "OK" THEN Fail(cl.st, cl.err)
  ELSE Ok(Stage(cl.st, <<Ev("Begin", "LeftRight", o.c \o cl.c),
                         SubGroup(g.s, g.e, TRUE), Ev("End", "", "")>>))

\* handle_primitive "left", lines 509-515: cl is the closing delimiter
LeftClosing(o, g, cl) ==
  IF cl.err # "OK" THEN Fail(cl.st, cl.err)
  ELSE Ok(Stage(cl.st, <<Ev("Begin", "LeftRight", o.c \o cl.c),
                         SubGroup(g.s, g.e, FALSE), Ev("End", "", "")>>))

\* handle_primitive "left", lines 500-508: g is the body up to \right
LeftBody(o, g) ==
  IF g.err # "OK" THEN Fail(o.st, g.err)
  ELSE LeftClosing(o, g, LeftRightDelimiter(SetCursor(o.st, g.rest)))

\* handle_primitive "left", lines 491-500: o is the opening delimiter
LeftOpening(o) ==
  IF o.err # "OK" THEN Fail(o.st, o.err)
  ELSE LeftBody(o, group_content(Content(o.st).s, Content(o.st).e, M_left, M_right))

\* handle_primitive "left"
Left(st) == LeftOpening(LeftRightDelimiter(st))

\* handle_primitive "sqrt": o is the result of lex::optional_argument
SqrtIndex(st, o) ==
  IF o.err # "OK" THEN Fail(st, o.err)
  ELSE IF o.some
    THEN ThenStage(ReadArgument(Stage(SetCursor(st, o.rest), <<Ev("Visual", "Root", "")>>)),
                   <<SubGroup(o.s, o.e, FALSE)>>)
  ELSE ReadArgument(Stage(st, <<Ev("Visual", "SquareRoot", "")>>))

\* handle_primitive "sqrt"
Sqrt(st) == SqrtIndex(st, optional_argument(Content(st).s, Content(st).e))

\* handle_primitive "not" | "cancel"
Negation(st) == ReadArgument(Stage(st, <<Ev("Visual", "Negation", "")>>))

\* handle_primitive "begingroup"
BeginGroupCs(st) ==
  StageGroup(st, group_content(Content(st).s, Content(st).e, N_begingroup, N_endgroup))

\* the GroupKind of an environment name, "" when the name is no environment
EnvironmentKind(env) ==
  CASE env = N_array -> "Array"
    [] env \in {N_matrix, N_smallmatrix, N_pmatrix, N_bmatrix, N_vmatrix, N_Vmatrix,
                N_Bmatrix} -> "Matrix"
    [] env = N_cases -> "Cases"
    [] env = N_align -> "Align"
    [] OTHER -> ""

\* the delimiters of the LeftRight group that wraps an environment, "" for none
\* (V stands for the double bar U+2016)
EnvironmentWrap(env) ==
  CASE env = N_pmatrix -> "()"
    [] env = N_bmatrix -> "[]"
    [] env = N_vmatrix -> "||"
    [] env = N_Vmatrix -> "VV"
    [] env = N_Bmatrix -> "{}"
    [] OTHER -> ""

\* the column specification, a the result of lex::argument
ColumnsArgument(st, a) ==
  IF a.err # "OK" THEN Fail(st, a.err)
  ELSE IF ~a.group THEN Fail(SetCursor(st, a.rest), "Argument")
  ELSE IF \E i \in a.s..(a.e - 1) : Char(i) \notin {"c", "l", "r", "|"}
    THEN Fail(SetCursor(st, a.rest), "Argument")
  ELSE Ok(SetCursor(st, a.rest))

\* the column specification of \begin{array}{..}: a group of c, l, r and |
ArrayColumns(st) == ColumnsArgument(st, argument(Content(st).s, Content(st).e))

\* BeginStage without the End of the LeftRight wrapper
BeginStage_NoWrapEnd(env, st2, g) ==
  IF g.err # "OK" THEN Fail(st2, g.err)
  ELSE Ok(Stage(SetCursor(st2, g.rest),
         <<Ev("Begin", EnvironmentKind(env), "")>>
         \o (IF env = N_smallmatrix THEN <<Ev("StateChange", "Style", "Text")>> ELSE <<>>)
         \o <<SubGroup(g.s, g.e, TRUE), Ev("End", "", "")>>))

\* handle_primitive "begin", lines 1452-1464: g is the body of the environment
BeginStage(env, st2, g) ==
  IF g.err # "OK" THEN Fail(st2, g.err)
  ELSE Ok(Stage(SetCursor(st2, g.rest),
         <<Ev("Begin", EnvironmentKind(env), "")>>
         \o (IF env = N_smallmatrix THEN <<Ev("StateChange", "Style", "Text")>> ELSE <<>>)
         \o <<SubGroup(g.s, g.e, TRUE), Ev("End", "", "")>>
         \o (IF EnvironmentWrap(env) # "" THEN <<Ev("End", "", "")>> ELSE <<>>)))

\* handle_primitive "begin", lines 1446-1451: the body up to \end{env}
BeginBody(env, st2) ==
  BeginStage(env, st2,
             group_content(Content(st2).s, Content(st2).e, M_begin(env), M_end(env)))

\* handle_primitive "begin", lines 1398-1444: the environment and its wrapper;
\* r1 is the result of reading the column specification, if any
BeginEnvironment(env, r1) ==
  IF r1.err # "OK" THEN r1
  ELSE IF EnvironmentKind(env) = "" THEN Fail(r1.st, "Environment")
  ELSE BeginBody(env,
                 IF EnvironmentWrap(env) # ""
                   THEN Stage(r1.st, <<Ev("Begin", "LeftRight", EnvironmentWrap(env))>>)
                 ELSE r1.st)

\* handle_primitive "begin", lines 1393-1395: a is the result of lex::argument
BeginArgument(st, a) ==
  IF a.err # "OK" THEN Fail(st, a.err)
  ELSE IF ~a.group THEN Fail(SetCursor(st, a.rest), "Argument")
  ELSE BeginEnvironment(Slice(a.s, a.e),
                        IF Slice(a.s, a.e) = N_array THEN ArrayColumns(SetCursor(st, a.rest))
                        ELSE Ok(SetCursor(st, a.rest)))

\* handle_primitive "begin": the environment body is scheduled with alignment
\* allowed, inside Begin(kind) .. End and the optional LeftRight wrapper
Begin(st) == BeginArgument(st, argument(Content(st).s, Content(st).e))

\* handle_primitive "relax": nothing is staged (state.invalidate_relax is never
\* set by the driver)
Relax(st) == Ok(st)

\* is_primitive_color (tables.rs), as far as the model's inputs go
is_primitive_color(s, e) == Slice(s, e) \in {<<"r", "e", "d">>}

\* StateChange(Color(ColorChange { color, target })), the color a view
ColorChange(target, s, e) == EvView("StateChange", "Color", target, s, e)

\* `let Argument::Group(color) = lex::argument(..)? else { return
\* Err(ErrorKind::Argument) }`: a is the result of lex::argument
ColorArgument(st, a) ==
  IF a.err # "OK" THEN [st |-> st, err |-> a.err, s |-> 0, e |-> 0]
  ELSE IF ~a.group THEN [st |-> SetCursor(st, a.rest), err |-> "Argument", s |-> 0, e |-> 0]
  ELSE [st |-> SetCursor(st, a.rest), err |-> "OK", s |-> a.s, e |-> a.e]

\* handle_primitive "color", lines 409-418: c is the color argument
\* (state.skip_suffixes is set here; the driver never reads it)
ColorCheck(c) ==
  IF c.err # "OK" THEN Fail(c.st, c.err)
  ELSE IF ~is_primitive_color(c.s, c.e) THEN Fail(c.st, "UnknownColor")
  ELSE Ok(Stage(c.st, <<ColorChange("Text", c.s, c.e)>>))

\* handle_primitive "color"
Color(st) == ColorCheck(ColorArgument(st, argument(Content(st).s, Content(st).e)))

\* handle_primitive "textcolor", lines 427-437: c is the color argument
TextcolorBody(c) ==
  IF c.err # "OK" THEN Fail(c.st, c.err)
  ELSE IF ~is_primitive_color(c.s, c.e) THEN Fail(c.st, "UnknownColor")
  ELSE ThenStage(StagedArgument(c.st, argument(Content(c.st).s, Content(c.st).e),
                                <<Ev("Begin", "Normal", ""), ColorChange("Text", c.s, c.e)>>),
                 <<Ev("End", "", "")>>)

\* handle_primitive "textcolor"
Textcolor(st) == TextcolorBody(ColorArgument(st, argument(Content(st).s, Content(st).e)))

\* text_argument: a is the result of lex::argument; the text of a character
\* token is token.as_str(), the view from the character on
TextArgument(st, a) ==
  IF a.err # "OK" THEN Fail(st, a.err)
  ELSE IF a.group
    THEN Ok(Stage(SetCursor(st, a.rest), <<EvView("Text", "", "", a.s, a.e)>>))
  ELSE IF a.cs THEN Fail(SetCursor(st, a.rest), "ControlSequenceAsArgument")
  ELSE Ok(Stage(SetCursor(st, a.rest), <<EvView("Text", "", "", a.p, Content(st).e)>>))

\* text_argument
text_argument(st) == TextArgument(st, argument(Content(st).s, Content(st).e))

\* colorbox with the group opened before the color is validated
ColorboxText_BeginFirst(c) ==
  IF c.err # "OK" THEN Fail(c.st, c.err)
  ELSE IF ~is_primitive_color(c.s, c.e)
    THEN Fail(Stage(c.st, <<Ev("Begin", "Normal", "")>>), "UnknownColor")
  ELSE ThenStage(text_argument(Stage(c.st, <<Ev("Begin", "Normal", ""),
                                             ColorChange("Background", c.s, c.e)>>)),
                 <<Ev("End", "", "")>>)

\* handle_primitive "colorbox", lines 445-453: c is the color argument
ColorboxText(c) ==
  IF c.err # "OK" THEN Fail(c.st, c.err)
  ELSE IF ~is_primitive_color(c.s, c.e) THEN Fail(c.st, "UnknownColor")
  ELSE ThenStage(text_argument(Stage(c.st, <<Ev("Begin", "Normal", ""),
                                             ColorChange("Background", c.s, c.e)>>)),
                 <<Ev("End", "", "")>>)

\* handle_primitive "colorbox"
Colorbox(st) == ColorboxText(ColorArgument(st, argument(Content(st).s, Content(st).e)))

\* handle_primitive "fcolorbox", lines 462-478: f and b are the two color
\* arguments
FcolorboxText(f, b) ==
  IF b.err # "OK" THEN Fail(b.st, b.err)
  ELSE IF ~is_primitive_color(f.s, f.e) \/ ~is_primitive_color(b.s, b.e)
    THEN Fail(b.st, "UnknownColor")
  ELSE ThenStage(text_argument(Stage(b.st, <<Ev("Begin", "Normal", ""),
                                             ColorChange("Text", f.s, f.e),
                                             ColorChange("Background", b.s, b.e)>>)),
                 <<Ev("End", "", "")>>)

\* handle_primitive "fcolorbox", lines 457-466: f is the frame color
FcolorboxBackground(f) ==
  IF f.err # "OK" THEN Fail(f.st, f.err)
  ELSE FcolorboxText(f, ColorArgument(f.st, argument(Content(f.st).s, Content(f.st).e)))

\* handle_primitive "fcolorbox"
Fcolorbox(st) ==
  FcolorboxBackground(ColorArgument(st, argument(Content(st).s, Content(st).e)))

\* handle_primitive: ns..ne is the view of the control sequence name
handle_primitive(st, ns, ne) ==
  LET cs == Slice(ns, ne) IN
  CASE cs = N_sin -> Ok(Stage(st, <<EvView("Function", "", "", ns, ne)>>))
    [] cs = N_bmod -> Ok(Stage(st, <<Ev("Function", "mod", "")>>))
    [] cs = N_alpha -> Ok(Stage(st, <<ordinary("alpha")>>))
    [] cs = N_mathbf -> font_group(st, "Bold")
    [] cs = N_color -> Color(st)
    [] cs = N_textcolor -> Textcolor(st)
    [] cs = N_colorbox -> Colorbox(st)
    [] cs = N_fcolorbox -> Fcolorbox(st)
    [] cs = N_left -> Left(st)
    [] cs = N_right -> Fail(st, "UnbalancedGroup(None)")
    [] cs = N_bar -> accent(st, "overline", FALSE)
    [] cs = N_hat -> accent(st, "^", FALSE)
    [] cs = N_underline -> underscript(st, "_")
    [] cs = N_frac -> fraction_like(st)
    [] cs = N_overset -> set_script(st, "Superscript")
    [] cs = N_underset -> set_script(st, "Subscript")
    [] cs = N_sqrt -> Sqrt(st)
    [] cs = N_not -> Negation(st)
    [] cs = N_relax -> Relax(st)
    [] cs = N_begingroup -> BeginGroupCs(st)
    [] cs = N_endgroup -> Fail(st, "UnbalancedGroup(None)")
    [] cs = N_begin -> Begin(st)
    [] cs = N_end -> Fail(st, "UnbalancedGroup(None)")
    [] cs \in {N_backslash, N_cr} /\ st.aa -> Ok(Stage(st, <<Ev("NewLine", "", "")>>))
    [] cs = N_space -> Ok(Stage(st, <<Ev("Text", "&nbsp;", "")>>))
    [] OTHER -> Fail(st, "UnknownPrimitive")

(***************************************************************************)
(* The driver (parser.rs).                                                 *)
(***************************************************************************)
\* the window of error_with_context, in bytes on either side
ContextWindow == 15

Min(a, b) == IF a < b THEN a ELSE b
Max(a, b) == IF a > b THEN a ELSE b

\* Parser::current_string: the exhausted pending input is popped from the
\* instruction stack, with one entry of the group stack
PopExhausted(st) ==
  [st EXCEPT !.is = Front(st.is), !.gs = IF st.gs = <<>> THEN <<>> ELSE Front(st.gs)]

\* Parser::current_string: exhausted pending inputs are popped from the
\* instruction stack, each with one entry of the group stack, which has to be
\* a Brace; "some" tells whether the top is then a pending input
RECURSIVE current_string(_)
current_string(st) ==
  IF st.is = <<>> \/ Last(st.is).t # "sub" THEN [st |-> st, err |-> "OK", some |-> FALSE]
  ELSE IF Content(st).s = Content(st).e THEN
    IF st.gs = <<>> \/ Last(st.gs) # "Brace"
      THEN [st |-> PopExhausted(st), err |-> "UnbalancedGroup(Some(Brace))", some |-> FALSE]
    ELSE current_string(PopExhausted(st))
  ELSE [st |-> st, err |-> "OK", some |-> TRUE]

\* Parser::error_with_context: the item Err(ParseError { context, error })
error_with_context(st, kind) ==
  LET Context(distance, start, end) ==
        Rec("err", kind, "", "", start, end, TRUE, distance - start)
  IN IF st.is = <<>> \/ Last(st.is).t # "sub" THEN Rec("err", kind, "", "", 0, 0, FALSE, 0)
     ELSE Context(Content(st).s, Max(Content(st).s - ContextWindow, 0),
                  Min(Len(input), Content(st).s + ContextWindow))

\* the result of check_suffixes: the marker ("" for none) and, for the record
\* of the atom, the staging buffer as it was before the suffixes were moved and
\* the two offsets into it
Suffix(st, err, marker, pre, sss, sf) ==
  [st |-> st, err |-> err, suffix |-> marker, pre |-> pre, sss |-> sss, sf |-> sf]
NoSuffix(st, err) == Suffix(st, err, "", st.buf, Len(st.buf), FALSE)

\* PushSuffixes without the exchange of the two arguments
PushSuffixes_NoSwap(st, first_suffix_start, second_suffix_start, subscript_first) ==
  LET Push(second_suffix_end, suffixes) ==
        Suffix([st EXCEPT !.is = st.is \o Rev(suffixes),
                          !.buf = SubSeq(st.buf, 1, first_suffix_start)],
               "OK",
               IF second_suffix_start # second_suffix_end THEN "SubSuperscript"
               ELSE IF subscript_first THEN "Subscript" ELSE "Superscript",
               st.buf, second_suffix_start, subscript_first)
  IN Push(Len(st.buf), SubSeq(st.buf, first_suffix_start + 1, Len(st.buf)))

\* check_suffixes, lines 205-232: the staged suffix arguments are moved from
\* the staging buffer to the instruction stack, the subscript above the
\* superscript
PushSuffixes(st, first_suffix_start, second_suffix_start, subscript_first) ==
  LET Push(second_suffix_end, first, second, kept) ==
        IF ~subscript_first /\ second_suffix_start # second_suffix_end
          THEN Suffix([st EXCEPT !.is = st.is \o Rev(first) \o Rev(second), !.buf = kept],
                      "OK", "SubSuperscript", st.buf, second_suffix_start, subscript_first)
        ELSE Suffix([st EXCEPT !.is = st.is \o Rev(first \o second), !.buf = kept],
                    "OK",
                    IF second_suffix_start # second_suffix_end THEN "SubSuperscript"
                    ELSE IF subscript_first THEN "Subscript" ELSE "Superscript",
                    st.buf, second_suffix_start, subscript_first)
  IN Push(Len(st.buf),
          SubSeq(st.buf, first_suffix_start + 1, second_suffix_start),
          SubSeq(st.buf, second_suffix_start + 1, Len(st.buf)),
          SubSeq(st.buf, 1, first_suffix_start))

\* check_suffixes, lines 192-199: the argument of the second suffix; c2 is the
\* current string after the script character
SecondSuffixArgument(c2, subscript_first) ==
  IF c2.err # "OK" THEN Fail(c2.st, c2.err)
  ELSE IF ~c2.some
    THEN Fail(c2.st, IF subscript_first THEN "EmptySuperscript" ELSE "EmptySubscript")
  ELSE ReadArgument(c2.st)

\* SecondSuffixChar without the check for the same script character twice
SecondSuffixChar_NoDouble(c, next_char, subscript_first) ==
  IF (next_char = "_" /\ ~subscript_first) \/ (next_char = "^" /\ subscript_first)
    THEN SecondSuffixArgument(current_string(SetCursor(c.st, Content(c.st).s + 1)),
                              subscript_first)
  ELSE Ok(c.st)

\* check_suffixes, lines 184-203: the character after the first suffix; c is
\* the current string there
SecondSuffixChar(c, next_char, subscript_first) ==
  IF (next_char = "_" /\ ~subscript_first) \/ (next_char = "^" /\ subscript_first)
    THEN SecondSuffixArgument(current_string(SetCursor(c.st, Content(c.st).s + 1)),
                              subscript_first)
  ELSE IF next_char \in {"_", "^"}
    THEN Fail(c.st, IF subscript_first THEN "DoubleSubscript" ELSE "DoubleSuperscript")
  ELSE Ok(c.st)

\* check_suffixes, lines 182-203, from the current string c on
SecondSuffixAt(c, subscript_first) ==
  IF c.err # "OK" THEN Fail(c.st, c.err)
  ELSE IF ~c.some THEN Ok(c.st)
  ELSE SecondSuffixChar(c, Char(Content(c.st).s), subscript_first)

\* check_suffixes, lines 182-203: the second suffix, when the next character
\* is the other script character; the same one twice is an error
SecondSuffix(st, subscript_first) == SecondSuffixAt(current_string(st), subscript_first)

\* check_suffixes, lines 182-232: r2 is the result of the second suffix
SuffixesRead(first_suffix_start, subscript_first, second_suffix_start, r2) ==
  IF r2.err # "OK" THEN NoSuffix(r2.st, r2.err)
  ELSE PushSuffixes(r2.st, first_suffix_start, second_suffix_start, subscript_first)

\* check_suffixes, lines 175-203: r1 is the result of the first suffix argument
FirstSuffixRead(first_suffix_start, subscript_first, r1) ==
  IF r1.err # "OK" THEN NoSuffix(r1.st, r1.err)
  ELSE SuffixesRead(first_suffix_start, subscript_first, Len(r1.st.buf),
                    SecondSuffix(r1.st, subscript_first))

\* check_suffixes, lines 166-181: the argument of the first suffix; c2 is the
\* current string after the script character
FirstSuffixArgument(first_suffix_start, subscript_first, c2) ==
  IF c2.err # "OK" THEN NoSuffix(c2.st, c2.err)
  ELSE IF ~c2.some
    THEN NoSuffix(c2.st, IF subscript_first THEN "EmptySubscript" ELSE "EmptySuperscript")
  ELSE FirstSuffixRead(first_suffix_start, subscript_first, ReadArgument(c2.st))

\* FirstSuffixChar without the script character being consumed
FirstSuffixChar_KeepChar(first_suffix_start, st1) ==
  IF Content(st1).s = Content(st1).e \/ Char(Content(st1).s) \notin {"^", "_"}
    THEN NoSuffix(st1, "OK")
  ELSE FirstSuffixArgument(first_suffix_start, Char(Content(st1).s) = "_",
                           current_string(st1))

\* check_suffixes, lines 157-166: the character after the atom, blanks skipped
FirstSuffixChar(first_suffix_start, st1) ==
  IF Content(st1).s = Content(st1).e \/ Char(Content(st1).s) \notin {"^", "_"}
    THEN NoSuffix(st1, "OK")
  ELSE FirstSuffixArgument(first_suffix_start, Char(Content(st1).s) = "_",
                           current_string(SetCursor(st1, Content(st1).s + 1)))

\* check_suffixes, lines 153-160, from the current string c on
FirstSuffixAt(first_suffix_start, c) ==
  IF c.err # "OK" THEN NoSuffix(c.st, c.err)
  ELSE IF ~c.some THEN NoSuffix(c.st, "OK")
  ELSE FirstSuffixChar(first_suffix_start,
                       SetCursor(c.st, trim_start(Content(c.st).s, Content(c.st).e)))

\* Parser::check_suffixes
check_suffixes(st) == FirstSuffixAt(Len(st.buf), current_string(st))

\* the record kept of the last atom the driver parsed: the control sequence
\* name (<<>> for a character), the character ("" for a control sequence), the
\* flag allows_alignment (aa), the cursor and the end of the pending input when
\* its handler was entered (hs, he), whether the handler returned Ok (hok) and
\* where it left the cursor (hx),
\* what the handler staged, the staging
\* buffer before the suffixes were moved
\* (pre) with the offsets of the first and second suffix argument (fss, sss),
\* which suffix came first (sf), the marker, whether the atom was committed
\* (ok), and how many atoms the current call of next has parsed (count)
NoAtom ==
  [cs |-> <<>>, ch |-> "", aa |-> FALSE, hs |-> 0, he |-> 0, hok |-> FALSE, hx |-> 0,
   staged |-> <<>>,
   pre |-> <<>>, fss |-> 0, sss |-> 0, sf |-> FALSE, suffix |-> "", ok |-> FALSE,
   count |-> 0]

\* Parser::next, lines 324-356: a digit as the first token of an atom.  p is
\* the offset of the digit; the cursor on the instruction stack is already
\* past it.  The view is split off a copy of the cursor (`content` is rebound
\* to a temporary before `*content = rest`), so the cursor on the stack stays
\* where lex::token left it.
NumberBranch(st, p) ==
  LET Run(len0) ==
        IF len0 = 1 THEN Ok(Stage(st, <<EvView("Number", Char(p), "Char", p, p + 1)>>))
        ELSE Ok(Stage(st, <<EvView("Number", "", "Str", p,
                                   p + (IF Char(p + len0 - 1) \in {".", ","}
                                          THEN len0 - 1 ELSE len0))>>))
  IN Run((RunEnd(p + 1, Content(st).e, IsNumberChar) - (p + 1)) + 1)

\* Drain with the script marker pushed below the atom
Drain_MarkerBelow(st, suffix) ==
  [st EXCEPT !.is = st.is
                     \o (IF suffix # "" THEN <<Ev("Visual", suffix, "")>> ELSE <<>>)
                     \o Rev(st.buf),
             !.buf = <<>>]

\* Parser::next, lines 374-379: the staging buffer is drained onto the
\* instruction stack in reverse, and the script marker is pushed above it
Drain(st, suffix) ==
  [st EXCEPT !.is = st.is \o Rev(st.buf)
                     \o (IF suffix # "" THEN <<Ev("Visual", suffix, "")>> ELSE <<>>),
             !.buf = <<>>]

\* the state flag allows_alignment while an atom of the pending input on top
\* of the instruction stack is parsed
AllowsAlignment(st) == Content(st).al

RECURSIVE next(_)

\* Parser::next, lines 374-381: sx is the result of check_suffixes; the atom
\* is drained and the next instruction executed
Commit(sx, at2) ==
  IF sx.err # "OK"
    THEN [st |-> [sx.st EXCEPT !.at = at2], res |-> error_with_context(sx.st, sx.err)]
  ELSE next([Drain(sx.st, sx.suffix) EXCEPT !.at = at2])

\* Parser::next, lines 368-372: the suffixes of the atom, recorded
Suffixes(r, at1, sx) ==
  Commit(sx, [at1 EXCEPT !.pre = sx.pre, !.fss = Len(r.st.buf), !.sss = sx.sss,
                         !.sf = sx.sf, !.suffix = sx.suffix, !.ok = sx.err = "OK"])

\* Parser::next, lines 364-372: r is the result of the handler (maybe_err)
Handled(r, at1) ==
  IF r.err # "OK"
    THEN [st |-> [r.st EXCEPT !.at = at1], res |-> error_with_context(r.st, r.err)]
  ELSE Suffixes(r, at1, check_suffixes(r.st))

\* the record of the atom once its handler has returned r
Staged(st, tk, st1, r) ==
  Handled(r, [NoAtom EXCEPT !.cs = IF tk.cs THEN Slice(tk.ns, tk.ne) ELSE <<>>,
                            !.ch = IF tk.cs THEN "" ELSE Char(tk.p),
                            !.aa = st1.aa,
                            !.hs = tk.rest,
                            !.he = Content(st1).e,
                            !.hok = r.err = "OK",
                            !.hx = Content(r.st).s,
                            !.staged = SubSeq(r.st.buf, Len(st.buf) + 1, Len(r.st.buf)),
                            !.count = st.at.count + 1])

\* Parser::next, lines 322-363: the token tk is dispatched to its handler
Dispatch(st, tk, st1) ==
  Staged(st, tk, st1,
         IF tk.cs THEN handle_primitive(st1, tk.ns, tk.ne)
         ELSE IF Char(tk.p) \in Digits THEN NumberBranch(st1, tk.p)
         ELSE handle_char_token(st1, tk.p))

\* Parser::next, lines 321-363: tk is the result of lex::token
Lexed(st, tk) ==
  IF tk.err # "OK" THEN [st |-> st, res |-> NoneItem]
  ELSE Dispatch(st, tk, [SetCursor(st, tk.rest) EXCEPT !.aa = AllowsAlignment(st)])

\* Parser::next, lines 313-381: one atom of the current pending input
ParseAtom(st) == Lexed(st, token(Content(st).s, Content(st).e))

\* Parser::next, lines 314-318: c is the result of current_string
NextString(c) ==
  IF c.err # "OK" THEN [st |-> c.st, res |-> error_with_context(c.st, c.err)]
  ELSE IF ~c.some THEN next(c.st)
  ELSE ParseAtom(c.st)

\* Parser::next
next(st) ==
  IF st.is = <<>> THEN [st |-> st, res |-> NoneItem]
  ELSE IF Last(st.is).t = "ev"
    THEN [st |-> [st EXCEPT !.is = Front(st.is)], res |-> Last(st.is)]
  ELSE NextString(current_string(st))

(***************************************************************************)
(* The inputs: every concatenation of at most MaxFrags core fragments, and *)
(* a list of longer inputs for the constructs the fragments do not reach.  *)
(***************************************************************************)
Fragments ==
  {<<"a">>, <<"1">>, <<".">>, <<"^">>, <<"_">>, <<"{">>, <<"}">>, <<" ">>, <<"$">>, <<"#">>,
   <<"&">>, <<"\\">> \o N_relax, <<"\\">> \o N_bar, <<"\\">> \o N_frac}

\* the fragments of the longer inputs: atoms, suffixes and groups
ScriptFragments == {<<"a">>, <<"^">>, <<"_">>, <<"{">>, <<"}">>, <<"\\">> \o N_hat}

RECURSIVE Concatenations(_, _)
Concatenations(frags, n) ==
  IF n = 0 THEN {<<>>}
  ELSE LET shorter == Concatenations(frags, n - 1) IN
       shorter \cup {x \o f : x \in shorter, f \in frags}

Curated ==
  {<<"a", "^", "b", "_">>,
   <<"{", "a", "^", "}", "b">>,
   <<"\\", "s", "q", "r", "t", "[", "a", "^", "]", "{", "b", "}", "c", "d">>,
   <<"\\", "s", "q", "r", "t", "[", "a", "^", "b", "_", "]", "{", "c", "}", "d">>,
   <<"\\", "s", "q", "r", "t", "[", "a", "^", "]", "{", "b", "}", "c">>,
   <<"\\", "o", "v", "e", "r", "s", "e", "t", " ", "a", "b">>,
   <<"\\", "u", "n", "d", "e", "r", "s", "e", "t", "{", "a", "}", "{", "b", "}">>,
   <<"\\", "o", "v", "e", "r", "s", "e", "t", "{", "a", "}", "{", "b", "}">>,
   <<"\\", "b", "e", "g", "i", "n", "{", "b", "m", "a", "t", "r", "i", "x", "}", "a">>,
   <<"\\", "b", "e", "g", "i", "n", "{", "V", "m", "a", "t", "r", "i", "x", "}", "a", "\\", "e", "n", "d", "{", "V", "m", "a", "t", "r", "i", "x", "}">>,
   <<"\\", "b", "e", "g", "i", "n", "{", "a", "l", "i", "g", "n", "}", "a", "&", "b", "\\", "e", "n", "d", "{", "a", "l", "i", "g", "n", "}">>,
   <<"\\", "b", "e", "g", "i", "n", "{", "x", "}", "a", "\\", "e", "n", "d", "{", "x", "}">>,
   <<"\\", "b", "e", "g", "i", "n", "{", "s", "m", "a", "l", "l", "m", "a", "t", "r", "i", "x", "}", "a", "\\", "e", "n", "d", "{", "s", "m", "a", "l", "l", "m", "a", "t", "r", "i", "x", "}">>,
   <<"\\", "s", "q", "r", "t", "[", "a", "]", "b">>,
   <<"\\", "s", "q", "r", "t", "[", "a", "]", "{", "b", "c", "}">>,
   <<"\\", "s", "q", "r", "t", "[", "a", "b", "]", "{", "c", "}">>,
   <<"\\", "s", "q", "r", "t", "{", "a", "}">>,
   <<"a", "^", "{", "1", "+", "3", "}", "_", "2">>,
   <<"\\", "f", "r", "a", "c", "{", "1", "}", "{", "2", "}", "_", "2", "^", "4">>,
   <<"\\", "b", "a", "r", "{", "y", "}">>,
   <<"a", "_", "{", "5", "_", "5", "}">>,
   <<"\\", "l", "e", "f", "t", "(", " ", "x", " ", "\\", "r", "i", "g", "h", "t", ")">>,
   <<"a", "^", "{", " ", "}">>,
   <<"\\", "b", "e", "g", "i", "n", "{", "m", "a", "t", "r", "i", "x", "}", "a", "&", "b", "\\", "\\", "c", "\\", "e", "n", "d", "{", "m", "a", "t", "r", "i", "x", "}">>,
   <<"\\", "b", "e", "g", "i", "n", "{", "p", "m", "a", "t", "r", "i", "x", "}", "{", "a", "&", "b", "}", "\\", "e", "n", "d", "{", "p", "m", "a", "t", "r", "i", "x", "}">>,
   <<"\\", "b", "e", "g", "i", "n", "{", "c", "a", "s", "e", "s", "}", "\\", "s", "q", "r", "t", "[", "&", "]", "{", "a", "}", "\\", "e", "n", "d", "{", "c", "a", "s", "e", "s", "}">>,
   <<"\\", "l", "e", "f", "t", "(", "a", "&", "b", "\\", "r", "i", "g", "h", "t", ")">>,
   <<"\\", "b", "e", "g", "i", "n", "g", "r", "o", "u", "p", "&", "\\", "e", "n", "d", "g", "r", "o", "u", "p">>,
   <<"\\", "m", "a", "t", "h", "b", "f", "{", "&", "}">>,
   <<"\\", "b", "e", "g", "i", "n", "{", "s", "m", "a", "l", "l", "m", "a", "t", "r", "i", "x", "}", "a", "^", "&", "\\", "e", "n", "d", "{", "s", "m", "a", "l", "l", "m", "a", "t", "r", "i", "x", "}">>,
   <<"\\", "b", "e", "g", "i", "n", "{", "a", "r", "r", "a", "y", "}", "{", "c", "l", "}", "\\", "m", "a", "t", "h", "b", "f", "&", "\\", "c", "r", "\\", "e", "n", "d", "{", "a", "r", "r", "a", "y", "}">>,
   <<"\\", "u", "n", "d", "e", "r", "l", "i", "n", "e", "{", "a", "}", "_", "1">>,
   <<"\\", "h", "a", "t", " ", "a", "^", "{", "1", "}", "_", "{", "2", "}">>,
   <<"\\", "s", "q", "r", "t", "[", "a", "^", "]", "{", "b", "}", "&">>,
   <<"\\", "n", "o", "t", "=">>,
   <<"\\", "a", "l", "p", "h", "a", "_", "1", "^", "2">>,
   <<"1", "2", ".", "5", ",">>,
   <<"1", "2", "3">>,
   <<"~">>,
   <<"\\", "r", "i", "g", "h", "t", ")">>,
   <<"a", "\\", "r", "i", "g", "h", "t", ")">>,
   <<"\\", "l", "e", "f", "t", ".", "a", "\\", "r", "i", "g", "h", "t", "|">>,
   <<"\\", "l", "e", "f", "t", "(", "\\", "l", "e", "f", "t", "[", "a", "\\", "r", "i", "g", "h", "t", "]", "b", "\\", "r", "i", "g", "h", "t", ".">>,
   <<"\\", "l", "e", "f", "t", "(", "a">>,
   <<"\\", "l", "e", "f", "t", " ", "a", "\\", "r", "i", "g", "h", "t", ")">>,
   <<"\\", "c", "o", "l", "o", "r", "{", "x", "}", "a">>,
   <<"\\", "c", "o", "l", "o", "r", "{", "r", "e", "d", "}", "a">>,
   <<"\\", "c", "o", "l", "o", "r", " ", "a">>,
   <<"\\", "t", "e", "x", "t", "c", "o", "l", "o", "r", "{", "x", "}", "{", "a", "}">>,
   <<"\\", "t", "e", "x", "t", "c", "o", "l", "o", "r", "{", "r", "e", "d", "}", "{", "a", "}">>,
   <<"\\", "c", "o", "l", "o", "r", "b", "o", "x", "{", "x", "}", "{", "a", "}">>,
   <<"\\", "c", "o", "l", "o", "r", "b", "o", "x", "{", "r", "e", "d", "}", "a">>,
   <<"\\", "c", "o", "l", "o", "r", "b", "o", "x", "{", "r", "e", "d", "}", "{", "a", "b", "}">>,
   <<"\\", "f", "c", "o", "l", "o", "r", "b", "o", "x", "{", "r", "e", "d", "}", "{", "x", "}", "{", "a", "}">>,
   <<"\\", "f", "c", "o", "l", "o", "r", "b", "o", "x", "{", "x", "}", "{", "r", "e", "d", "}", "{", "a", "}">>,
   <<"\\", "f", "c", "o", "l", "o", "r", "b", "o", "x", "{", "r", "e", "d", "}", "{", "r", "e", "d", "}", "{", "a", "}">>,
   <<"\\", "f", "c", "o", "l", "o", "r", "b", "o", "x", "{", "x", "}", "a">>,
   <<"a", "~", "1", "2">>,
   <<"\\", "b", "m", "o", "d">>,
   <<"\\", "s", "i", "n", " ", "a">>,
   <<"\\", "b", "e", "g", "i", "n", "{", "m", "a", "t", "r", "i", "x", "}", "&", "^", "\\", "e", "n", "d", "{", "m", "a", "t", "r", "i", "x", "}", "a", "a">>}

Inputs ==
  Concatenations(Fragments, MaxFrags) \cup Concatenations(ScriptFragments, MaxScriptFrags)
    \cup Curated

(***************************************************************************)
(* The state machine: the consumer polls the iterator.                     *)
(***************************************************************************)
Parser ==
  [is |-> instruction_stack, buf |-> buffer, gs |-> group_stack, aa |-> FALSE,
   at |-> [atom EXCEPT !.count = 0]]

NoneCount == Cardinality({i \in 1..Len(results) : results[i].t = "none"})

\* no call of error_with_context on an input of several bytes a character is
\* in progress
NoContext == [widths |-> <<>>, distance |-> 0, start |-> 0, end |-> 0, pc |-> "idle"]

\* no call of is_operator is in progress
NoLookup == [ch |-> 0, c |-> 0, index |-> 0, pc |-> "idle", visited |-> {}]

\* Parser::new
Init ==
  /\ input \in Inputs
  /\ instruction_stack = <<SubGroup(0, Len(input), FALSE)>>
  /\ buffer = <<>>
  /\ group_stack = <<"Brace">>
  /\ results = <<>>
  /\ atom = NoAtom
  /\ lookup = NoLookup
  /\ context = NoContext

Poll(kind) ==
  LET Returned(r) ==
        /\ r.res.t = kind
        /\ instruction_stack' = r.st.is
        /\ buffer' = r.st.buf
        /\ group_stack' = r.st.gs
        /\ atom' = r.st.at
        /\ results' = Append(results, r.res)
  IN /\ NoneCount < MaxNone
     /\ Returned(next(Parser))
     /\ UNCHANGED <<input, lookup, context>>

\* next returns Some(Ok(event))
PollEvent == Poll("ev")
\* next returns Some(Err(error))
PollError == Poll("err")
\* next returns None
PollNone == Poll("none")

Next == PollEvent \/ PollError \/ PollNone

Spec == Init /\ [][Next]_vars

(***************************************************************************)
(* The operator table (src/parse/operator_table.rs): one call of           *)
(* is_operator, one step of its loop per action.  `lookup` is the frame    *)
(* of the call: the argument ch, the truncated c, the index, where the     *)
(* call stands ("loop", "true", "false"; "idle" when no call is made),     *)
(* and the indices the loop has already examined.                          *)
(***************************************************************************)
OPERATOR_TABLE ==
  <<<<33, 34>>, <<37, 47>>, <<58, 59>>, <<63, 64>>, <<91, 96>>, <<123, 126>>, <<168, 168>>, <<172, 172>>,
   <<175, 180>>, <<183, 185>>, <<215, 215>>, <<247, 247>>, <<710, 711>>, <<713, 715>>, <<717, 717>>, <<728, 730>>,
   <<732, 733>>, <<759, 759>>, <<770, 770>>, <<785, 785>>, <<800, 800>>, <<802, 803>>, <<805, 805>>, <<807, 807>>,
   <<814, 814>>, <<817, 817>>, <<8214, 8214>>, <<8216, 8223>>, <<8226, 8226>>, <<8242, 8247>>, <<8254, 8254>>, <<8259, 8260>>,
   <<8279, 8279>>, <<8289, 8292>>, <<8411, 8412>>, <<8517, 8518>>, <<8592, 8597>>, <<8602, 8622>>, <<8624, 8629>>, <<8633, 8633>>,
   <<8636, 8661>>, <<8666, 8688>>, <<8691, 8708>>, <<8710, 8711>>, <<8719, 8732>>, <<8735, 8738>>, <<8743, 8758>>, <<8760, 8760>>,
   <<8764, 8764>>, <<8768, 8768>>, <<8844, 8846>>, <<8851, 8859>>, <<8861, 8865>>, <<8890, 8903>>, <<8905, 8908>>, <<8910, 8911>>,
   <<8914, 8915>>, <<8965, 8966>>, <<8968, 8971>>, <<8976, 8976>>, <<8985, 8985>>, <<8994, 8995>>, <<9001, 9002>>, <<9140, 9141>>,
   <<9165, 9165>>, <<9180, 9185>>, <<10098, 10099>>, <<10132, 10135>>, <<10137, 10137>>, <<10139, 10145>>, <<10149, 10150>>, <<10152, 10159>>,
   <<10161, 10161>>, <<10163, 10163>>, <<10165, 10165>>, <<10168, 10168>>, <<10170, 10174>>, <<10176, 10176>>, <<10187, 10187>>, <<10189, 10189>>,
   <<10214, 10225>>, <<10228, 10239>>, <<10496, 10528>>, <<10548, 10551>>, <<10562, 10613>>, <<10620, 10624>>, <<10627, 10649>>, <<10651, 10671>>,
   <<10680, 10680>>, <<10684, 10684>>, <<10692, 10696>>, <<10708, 10715>>, <<10722, 10722>>, <<10741, 10749>>, <<10752, 10853>>, <<10971, 10973>>,
   <<10988, 10989>>, <<10998, 10998>>, <<11003, 11007>>, <<11012, 11015>>, <<11020, 11025>>, <<11056, 11070>>, <<11072, 11084>>, <<11104, 11109>>,
   <<11114, 11117>>, <<11120, 11123>>, <<11130, 11133>>, <<11136, 11143>>, <<11157, 11157>>, <<11168, 11183>>, <<11192, 11192>>>>

TableLen == Len(OPERATOR_TABLE)

\* the range at a 0-based index
start(i) == OPERATOR_TABLE[i + 1][1]

end(i) == OPERATOR_TABLE[i + 1][2]

\* `c as u16`
AsU16(ch) == ch % 65536

\* the code points the call is made with: both sides of every bound of the
\* table, the same 65536 higher, and a few others
TableEdges ==
  UNION {{start(i) - 1, start(i), end(i), end(i) + 1} : i \in 0..(TableLen - 1)}

Chars ==
  TableEdges \cup {65536 + x : x \in TableEdges}
    \cup {0, 48, 97, 65535, 65536, 1114111}

ParserIdle ==
  /\ input = <<>>
  /\ instruction_stack = <<>>
  /\ buffer = <<>>
  /\ group_stack = <<>>
  /\ results = <<>>
  /\ atom = NoAtom

\* entry of is_operator
OperatorInit ==
  /\ ParserIdle
  /\ context = NoContext
  /\ \E ch \in Chars :
       lookup = [ch |-> ch, c |-> AsU16(ch), index |-> TableLen \div 2,
                 pc |-> "loop", visited |-> {}]

Move(i) ==
  lookup' = [lookup EXCEPT !.index = i, !.visited = @ \cup {lookup.index}]

Return(r) == lookup' = [lookup EXCEPT !.pc = r]

\* c < start, index # 0
Lower ==
  /\ lookup.pc = "loop"
  /\ lookup.c < start(lookup.index)
  /\ lookup.index # 0
  /\ Move(lookup.index \div 2)
  /\ UNCHANGED <<input, instruction_stack, buffer, group_stack, results, atom, context>>

\* c < start, index = 0
BreakLower ==
  /\ lookup.pc = "loop"
  /\ lookup.c < start(lookup.index)
  /\ lookup.index = 0
  /\ Return("false")
  /\ UNCHANGED <<input, instruction_stack, buffer, group_stack, results, atom, context>>

\* c > end, index # len - 1
Upper ==
  /\ lookup.pc = "loop"
  /\ lookup.c >= start(lookup.index)
  /\ lookup.c > end(lookup.index)
  /\ lookup.index # TableLen - 1
  /\ Move(lookup.index + (TableLen - lookup.index) \div 2)
  /\ UNCHANGED <<input, instruction_stack, buffer, group_stack, results, atom, context>>

\* c > end, index = len - 1
BreakUpper ==
  /\ lookup.pc = "loop"
  /\ lookup.c >= start(lookup.index)
  /\ lookup.c > end(lookup.index)
  /\ lookup.index = TableLen - 1
  /\ Return("false")
  /\ UNCHANGED <<input, instruction_stack, buffer, group_stack, results, atom, context>>

\* start <= c <= end
Found ==
  /\ lookup.pc = "loop"
  /\ lookup.c >= start(lookup.index)
  /\ lookup.c <= end(lookup.index)
  /\ Return("true")
  /\ UNCHANGED <<input, instruction_stack, buffer, group_stack, results, atom, context>>

OperatorNext == Lower \/ BreakLower \/ Upper \/ BreakUpper \/ Found

OperatorSpec == OperatorInit /\ [][OperatorNext]_vars

(***************************************************************************)
(* error_with_context on an input whose characters take one to four bytes  *)
(* (src/parser.rs, lines 258-295).  The parser model above reads inputs of *)
(* one-byte characters, where byte offsets and character offsets agree;    *)
(* here the input is the sequence of the widths of its characters, and     *)
(* `context` is the frame of one call: the widths, the byte offset of the  *)
(* cursor (a &str, so on a character boundary), the two bounds of the      *)
(* slice, and where the call stands ("call", "slice", "some", "panic").    *)
(***************************************************************************)
\* the bytes a character takes in UTF-8
Utf8Widths == 1..4

\* str::len of the characters of widths w
RECURSIVE ByteLen(_)
ByteLen(w) == IF w = <<>> THEN 0 ELSE Head(w) + ByteLen(Tail(w))

\* str::is_char_boundary
is_char_boundary(w, b) == \E n \in 0..Len(w) : ByteLen(SubSeq(w, 1, n)) = b

\* entry of error_with_context, the top of the instruction stack a Substring
ContextInit ==
  /\ ParserIdle
  /\ lookup = NoLookup
  /\ \E n \in 0..MaxChars : \E w \in [1..n -> Utf8Widths] : \E d \in 0..ByteLen(w) :
       /\ is_char_boundary(w, d)
       /\ context = [NoContext EXCEPT !.widths = w, !.distance = d, !.pc = "call"]

\* lines 288-290: distance, start and end
ContextBounds ==
  /\ context.pc = "call"
  /\ context' = [context EXCEPT !.start = Max(context.distance - ContextWindow, 0),
                                !.end = Min(ByteLen(context.widths),
                                            context.distance + ContextWindow),
                                !.pc = "slice"]
  /\ UNCHANGED <<input, instruction_stack, buffer, group_stack, results, atom, lookup>>

\* line 292: &self.input[start..end] with both bounds on character boundaries
ContextSliced ==
  /\ context.pc = "slice"
  /\ is_char_boundary(context.widths, context.start)
  /\ is_char_boundary(context.widths, context.end)
  /\ context' = [context EXCEPT !.pc = "some"]
  /\ UNCHANGED <<input, instruction_stack, buffer, group_stack, results, atom, lookup>>

\* line 292: &self.input[start..end] panics when a bound is inside a character
ContextPanics ==
  /\ context.pc = "slice"
  /\ \/ ~is_char_boundary(context.widths, context.start)
     \/ ~is_char_boundary(context.widths, context.end)
  /\ context' = [context EXCEPT !.pc = "panic"]
  /\ UNCHANGED <<input, instruction_stack, buffer, group_stack, results, atom, lookup>>

ContextNext == ContextBounds \/ ContextSliced \/ ContextPanics

ContextSpec == ContextInit /\ [][ContextNext]_vars

(***************************************************************************)
(* The produced stream.                                                    *)
(***************************************************************************)
IsEvent(r) == r.t = "ev"
Events == SelectSeq(results, IsEvent)
\* the events produced before the i-th item
EventsBefore(i) == SelectSeq(SubSeq(results, 1, i - 1), IsEvent)
Ended == results # <<>> /\ Last(results).t = "none"
NoError == \A i \in DOMAIN results : results[i].t # "err"
IsOpener(r) == r.k \in {"Begin", "BeginGroup"}
IsCloser(r) == r.k \in {"End", "EndGroup"}

\* the kinds of the groups left open by the events q, innermost last; bad when
\* a closer met no opener or one of the other pair
RECURSIVE OpenGroups(_)
OpenGroups(q) ==
  IF q = <<>> THEN [open |-> <<>>, bad |-> FALSE]
  ELSE
    LET g == OpenGroups(Front(q))
        r == Last(q)
    IN IF IsOpener(r)
         THEN [g EXCEPT !.open = Append(g.open, IF r.k = "Begin" THEN r.c ELSE "BeginGroup")]
       ELSE IF IsCloser(r) THEN
         IF g.open = <<>> THEN [g EXCEPT !.bad = TRUE]
         ELSE [open |-> Front(g.open),
               bad |-> g.bad \/ ((r.k = "EndGroup") # (Last(g.open) = "BeginGroup"))]
       ELSE g

\* the number of children a marker takes
Arity(r) ==
  IF r.k = "Script" THEN 2
  ELSE IF r.k = "Visual" THEN
    CASE r.c \in {"Fraction", "Root", "Subscript", "Superscript"} -> 2
      [] r.c \in {"SquareRoot", "Negation"} -> 1
      [] r.c = "SubSuperscript" -> 3
      [] OTHER -> 0
  ELSE 0

\* the index of the closer of the group opened just before q[i], 0 for none
RECURSIVE GroupEnd(_, _, _)
GroupEnd(q, i, depth) ==
  IF i > Len(q) THEN 0
  ELSE IF IsOpener(q[i]) THEN GroupEnd(q, i + 1, depth + 1)
  ELSE IF IsCloser(q[i]) THEN IF depth = 0 THEN i ELSE GroupEnd(q, i + 1, depth - 1)
  ELSE GroupEnd(q, i + 1, depth)

\* the index after the n children that start at q[i], 0 when they are not
\* there: a child is a leaf, a marker with its children or a group
RECURSIVE ChildrenEnd(_, _, _)
ChildrenEnd(q, i, n) ==
  IF n = 0 THEN i
  ELSE IF i > Len(q) \/ IsCloser(q[i]) THEN 0
  ELSE
    LET j == IF IsOpener(q[i])
               THEN (LET c == GroupEnd(q, i + 1, 0) IN IF c = 0 THEN 0 ELSE c + 1)
             ELSE ChildrenEnd(q, i + 1, Arity(q[i]))
    IN IF j = 0 THEN 0 ELSE ChildrenEnd(q, j, n - 1)

\* the n instructions on top of the instruction stack, the next one first
Upcoming(n) ==
  Rev(SubSeq(instruction_stack, Len(instruction_stack) - n + 1, Len(instruction_stack)))

\* the last call of next parsed an atom and committed it
JustParsed == atom.count > 0 /\ atom.ok
\* the staged atom and its suffix arguments, as they were in the staging buffer
AtomBase == SubSeq(atom.pre, 1, atom.fss)
AtomFirst == SubSeq(atom.pre, atom.fss + 1, atom.sss)
AtomSecond == SubSeq(atom.pre, atom.sss + 1, Len(atom.pre))
AtomSub == IF atom.sf THEN AtomFirst ELSE AtomSecond
AtomSup == IF atom.sf THEN AtomSecond ELSE AtomFirst

(***************************************************************************)
(* The claims.                                                             *)
(***************************************************************************)
\* C1: when the parser reached end-of-sequence without yielding an Err, the
\* events produced are balanced: every Begin/BeginGroup has its End/EndGroup,
\* properly nested, and none is left open.
C1_BalancedAtEnd ==
  (Ended /\ NoError) => (~OpenGroups(Events).bad /\ OpenGroups(Events).open = <<>>)

\* C2: end-of-sequence without a preceding error is returned only when
\* nothing is pending: no event is scheduled on the instruction stack, no
\* pending input holds anything but blanks, and no produced group is open.
C2_NoneOnlyWhenNothingPending ==
  (Ended /\ NoError) =>
    /\ \A i \in DOMAIN instruction_stack :
         /\ instruction_stack[i].t = "sub"
         /\ \A j \in instruction_stack[i].s..(instruction_stack[i].e - 1) :
              IsWhitespace(Char(j))
    /\ OpenGroups(Events).open = <<>>

\* C3: after an Err item every later item is end-of-sequence.
C3_NothingAfterError ==
  \A i, j \in DOMAIN results : (i < j /\ results[i].t = "err") => results[j].t = "none"

\* C4: after the SubSuperscript marker come the base, then the whole subscript
\* argument, then the whole superscript argument, whichever came first in the
\* source, each in the order it was staged.
C4_BaseSubSup ==
  (JustParsed /\ atom.suffix = "SubSuperscript") =>
    /\ Last(results) = Ev("Visual", "SubSuperscript", "")
    /\ Len(instruction_stack) >= Len(atom.pre)
    /\ Upcoming(Len(atom.pre)) = AtomBase \o AtomSub \o AtomSup

\* C4 witness: the atom a with the superscript first in the source, the
\* superscript a brace group, committed with both arguments.
C4_Witness ==
  /\ JustParsed /\ atom.suffix = "SubSuperscript" /\ ~atom.sf
  /\ AtomBase = <<ordinary("a")>> /\ Len(AtomSub) = 1 /\ AtomSub[1].k = "Number"
  /\ Len(AtomSup) = 3 /\ AtomSup[1] = Ev("BeginGroup", "", "")
  /\ Upcoming(Len(atom.pre)) = AtomBase \o AtomSub \o AtomSup

\* C5: when an atom has a suffix, the marker is produced first, the staged
\* atom follows in the order it was staged, and the suffix arguments come
\* after the last event of the atom.
C5_MarkerAtomSuffixes ==
  (JustParsed /\ atom.suffix # "") =>
    /\ Last(results) = Ev("Visual", atom.suffix, "")
    /\ Len(instruction_stack) >= Len(atom.pre)
    /\ SubSeq(Upcoming(Len(atom.pre)), 1, atom.fss) = AtomBase
    /\ SubSeq(Upcoming(Len(atom.pre)), atom.fss + 1, Len(atom.pre))
         \in {AtomFirst \o AtomSecond, AtomSecond \o AtomFirst}

\* C5 witness: \frac with both arguments as the base of a suffix.
C5_Witness ==
  /\ JustParsed /\ atom.suffix # "" /\ atom.cs = N_frac
  /\ Len(AtomBase) = 7 /\ AtomFirst # <<>>
  /\ Last(results) = Ev("Visual", atom.suffix, "")

\* C6: in a stream produced without error, every Script and Visual marker is
\* followed by as many children as its arity.
C6_MarkerArity ==
  (Ended /\ NoError) =>
    \A i \in DOMAIN Events :
      Arity(Events[i]) > 0 => ChildrenEnd(Events, i + 1, Arity(Events[i])) # 0

\* C7: a run of digits is one Number event and no character of it is
\* tokenised again: the views of the Number events do not overlap.
C7_NumberRunOnce ==
  \A i, j \in DOMAIN results :
    (i < j /\ results[i].t = "ev" /\ results[j].t = "ev"
       /\ results[i].k = "Number" /\ results[j].k = "Number")
      => results[j].s >= results[i].e

\* the accent glyph and the script type of the accent commands of the model
AccentGlyph(cs) == IF cs = N_bar THEN "overline" ELSE IF cs = N_hat THEN "^" ELSE "_"
AccentType(cs) == IF cs = N_underline THEN "Subscript" ELSE "Superscript"

Environments ==
  {N_array, N_matrix, N_smallmatrix, N_pmatrix, N_bmatrix, N_vmatrix, N_Vmatrix, N_Bmatrix,
   N_cases, N_align}

\* C9: every Alignment and NewLine event produced is inside a group of kind
\* Array, Matrix, Cases or Align that is still open, and only the body of an
\* environment is scheduled with alignment allowed.
C9_AlignmentInsideEnvironment ==
  /\ \A i \in DOMAIN results :
       (results[i].t = "ev" /\ results[i].k \in {"Alignment", "NewLine"}) =>
         \E j \in DOMAIN OpenGroups(EventsBefore(i)).open :
           OpenGroups(EventsBefore(i)).open[j] \in {"Array", "Matrix", "Cases", "Align"}
  /\ \A q \in {instruction_stack, buffer} : \A i \in DOMAIN q :
       (q[i].t = "sub" /\ q[i].al) =>
         \E env \in Environments : StartsWith(q[i].e, Len(input), M_end(env))

\* C10: the character dispatcher returns an error and stages nothing for '$'
\* (MathShift), for '#' (HashSign) and for '&' read while alignment is not
\* allowed (AlignmentChar).
C10_SpecialCharErrors ==
  (atom.count > 0 /\ (atom.ch \in {"$", "#"} \/ (atom.ch = "&" /\ ~atom.aa))) =>
    /\ ~atom.hok /\ atom.staged = <<>>
    /\ Last(results).t = "err"
    /\ Last(results).k = (CASE atom.ch = "$" -> "MathShift"
                            [] atom.ch = "#" -> "HashSign"
                            [] OTHER -> "AlignmentChar")

\* the events that carry a string: Number (unless a single character), Text,
\* Function, and the color value of a color change
CarriesString(r) ==
  /\ r.t = "ev"
  /\ \/ r.k \in {"Text", "Function"}
     \/ r.k = "Number" /\ r.d = "Str"
     \/ r.k = "StateChange" /\ r.c = "Color"

\* the string of an event when it is a literal of the program and no view
Literal(r) == IF r.k \in {"Text", "Function", "Number"} THEN r.c ELSE ""

\* C11: every string carried by a produced event is a view into the input:
\* it is no literal of the program and its offsets lie within the input.
C11_ViewsInsideInput ==
  \A i \in DOMAIN results :
    CarriesString(results[i]) =>
      /\ Literal(results[i]) = ""
      /\ 0 <= results[i].s /\ results[i].s <= results[i].e
      /\ results[i].e <= Len(input)

ColorCommands == {N_color, N_textcolor, N_colorbox, N_fcolorbox}

\* the color arguments that follow the control sequence of the last atom
FirstColor == argument(atom.hs, atom.he)
SecondColor == argument(FirstColor.rest, atom.he)
\* the argument a is a brace group that holds no primitive color name
UnknownColorGroup(a) == a.err = "OK" /\ a.group /\ ~is_primitive_color(a.s, a.e)
ColorGroup(a) == a.err = "OK" /\ a.group

\* the last atom is a color command one of whose color arguments (brace
\* groups) is not a primitive color name
UnknownColorRead ==
  /\ atom.count > 0 /\ atom.cs \in ColorCommands
  /\ IF atom.cs = N_fcolorbox
       THEN /\ ColorGroup(FirstColor) /\ ColorGroup(SecondColor)
            /\ UnknownColorGroup(FirstColor) \/ UnknownColorGroup(SecondColor)
     ELSE UnknownColorGroup(FirstColor)

C13_CloseBraceNamesBrace ==
  (atom.count > 0 /\ atom.ch = "}") =>
    /\ Last(results).t = "err"
    /\ Last(results).k = "UnbalancedGroup(Some(Brace))"

\* where the suffix of the last atom starts, and its first argument
SuffixAt == trim_start(atom.hx, atom.he)
FirstSuffix == argument(SuffixAt + 1, atom.he)
\* the cursor after the first suffix argument, when that is a brace group, a
\* letter, or a script character (onto which the cursor is moved back)
AfterFirstSuffix ==
  IF FirstSuffix.group \/ Char(FirstSuffix.p) \in Letters THEN FirstSuffix.rest
  ELSE FirstSuffix.p

\* the last atom is followed by the script character c, an argument, and the
\* script character c again
SecondSameSuffix(c) ==
  /\ atom.count > 0 /\ atom.hok
  /\ SuffixAt < atom.he /\ Char(SuffixAt) = c
  /\ FirstSuffix.err = "OK"
  /\ FirstSuffix.group \/ (~FirstSuffix.cs /\ Char(FirstSuffix.p) \in Letters \cup {"_", "^"})
  /\ AfterFirstSuffix < atom.he /\ Char(AfterFirstSuffix) = c

C15_DefaultIdentifier ==
  (atom.count > 0 /\ atom.hok /\ atom.ch \in Letters) =>
    atom.staged = <<Ev("Identifier", atom.ch, "Char")>>

\* C16: '_' or '^' read as the first token of an atom yields the error
\* SubscriptAsToken or SuperscriptAsToken, and stages no event.
C16_ScriptAsTokenErrors ==
  (atom.count > 0 /\ atom.ch \in {"_", "^"}) =>
    /\ ~atom.hok /\ atom.staged = <<>>
    /\ Last(results).t = "err"
    /\ Last(results).k = (IF atom.ch = "_" THEN "SubscriptAsToken" ELSE "SuperscriptAsToken")

\* the opening delimiter, the body and the closing delimiter that follow the
\* \left of the last atom; '.' stands for no delimiter
LeftOpener ==
  IF StartsWith(atom.hs, atom.he, <<".">>) THEN [err |-> "OK", c |-> ".", rest |-> atom.hs + 1]
  ELSE delimiter(atom.hs, atom.he)
LeftBodyView == group_content(LeftOpener.rest, atom.he, M_left, M_right)
LeftCloser ==
  IF StartsWith(LeftBodyView.rest, atom.he, <<".">>)
    THEN [err |-> "OK", c |-> ".", rest |-> LeftBodyView.rest + 1]
  ELSE delimiter(LeftBodyView.rest, atom.he)
\* the last atom is a \left with its opener, body, \right and closer
LeftRightRead ==
  /\ atom.count > 0 /\ atom.cs = N_left
  /\ LeftOpener.err = "OK" /\ LeftBodyView.err = "OK" /\ LeftCloser.err = "OK"

\* C17: \left<o> body \right<c> stages exactly three instructions, in this
\* order: Begin(LeftRight(o', c')), the body as a pending input with alignment
\* not allowed, and End, where o' and c' are none ('.') or the delimiter
\* character; a \right read as a token, which no \left of the current input
\* matches, yields Err(UnbalancedGroup) and stages nothing.
C17_LeftRightStaging ==
  /\ LeftRightRead =>
       /\ atom.hok
       /\ atom.staged = <<Ev("Begin", "LeftRight", LeftOpener.c \o LeftCloser.c),
                          SubGroup(LeftBodyView.s, LeftBodyView.e, FALSE),
                          Ev("End", "", "")>>
       /\ atom.hx = LeftCloser.rest
  /\ (atom.count > 0 /\ atom.cs = N_left /\ atom.hok) => LeftRightRead
  /\ (atom.count > 0 /\ atom.cs = N_right) =>
       /\ ~atom.hok /\ atom.staged = <<>>
       /\ Last(results).t = "err" /\ Last(results).k = "UnbalancedGroup(None)"

\* C17 witness: a \left( .. \right) with a body of three characters has
\* staged Begin(LeftRight('(', ')')), the body and End.
C17_Witness ==
  /\ LeftRightRead /\ atom.hok
  /\ atom.staged = <<Ev("Begin", "LeftRight", "()"), SubGroup(6, 9, FALSE), Ev("End", "", "")>>

\* C18: every Err item carries a context window, and its marker, as an offset
\* into the input, lies within the input and inside the window; also when the
\* error is raised after the pending input was exhausted.
C18_ErrorContext ==
  \A i \in DOMAIN results :
    results[i].t = "err" =>
      /\ results[i].al
      /\ 0 <= results[i].s + results[i].n /\ results[i].s + results[i].n <= Len(input)
      /\ results[i].n >= 0 /\ results[i].s + results[i].n <= results[i].e

\* C19: a call of next parses at most one atom (one token dispatch and its
\* suffix lookahead) before it returns.
C19_OneAtomPerCall == atom.count <= 1

\* the number of characters left in the pending inputs of q
RECURSIVE Remaining(_)
Remaining(q) ==
  IF q = <<>> THEN 0
  ELSE Remaining(Tail(q)) + (IF Head(q).t = "sub" THEN Head(q).e - Head(q).s ELSE 0)

\* what is left to parse: the pending inputs scheduled or staged
PendingInput == Remaining(instruction_stack) + Remaining(buffer)

\* a call of next that parsed an atom has shrunk the pending input, and one
\* that returned an item without parsing has shortened the instruction stack
Progress ==
  /\ atom'.count > 0 => PendingInput' < PendingInput
  /\ (results' # results /\ Last(results').t # "none") =>
       \/ PendingInput' < PendingInput
       \/ PendingInput' = PendingInput /\ Len(instruction_stack') < Len(instruction_stack)

\* a call of next in the current state returns: an event, an error or
\* end-of-sequence
CallReturns == next(Parser).res.t \in {"ev", "err", "none"}

\* C20: the sequence is finite: every call of next returns, each atom parsed
\* strictly shrinks the pending input (atoms whose handler moves the cursor
\* back included), and every call that returns an event or an error lowers
\* the pair (pending input, length of the instruction stack), so that
\* end-of-sequence comes after finitely many calls.
C20_Finite == [][Progress]_vars /\ []CallReturns

\* C20 witness: the atom of a bare script character, whose handler moved the
\* cursor back, was parsed and committed, and the pending input has shrunk.
C20_Witness ==
  /\ JustParsed /\ atom.ch \in {"_", "^"} /\ atom.hx = atom.hs - 1
  /\ PendingInput < Len(input)

(***************************************************************************)
(* The operator table.                                                     *)
(***************************************************************************)
InTable(ch) == \E i \in 0..(TableLen - 1) : start(i) <= ch /\ ch <= end(i)

\* C21: is_operator(c) returns true exactly when the code point c, above
\* U+FFFF included, lies inside one of the inclusive ranges of the table.
C21_MembershipExact ==
  /\ lookup.pc = "true" => InTable(lookup.ch)
  /\ lookup.pc = "false" => ~InTable(lookup.ch)

\* C22: the loop of is_operator never comes back to an index it has already
\* examined; the loop's only state is the index, so coming back to one is
\* going round forever.
C22_NeverRevisits == lookup.pc = "loop" => lookup.index \notin lookup.visited

(***************************************************************************)
(* Scoped state changes.                                                   *)
(***************************************************************************)
ScopedCommands == {N_mathbf, N_textcolor, N_colorbox, N_fcolorbox}

\* the handler of the last atom, a scoped state-change command, succeeded
ScopedStaged == atom.count > 0 /\ atom.cs \in ScopedCommands /\ atom.hok

\* how many StateChange events the command stages
StateChanges == IF atom.cs = N_fcolorbox THEN 2 ELSE 1

\* C23: every scoped state-change command (\mathbf, \textcolor, \colorbox,
\* \fcolorbox) stages Begin(Internal), then its StateChange event or events,
\* then its argument, then End.
C23_ScopedInInternal ==
  ScopedStaged =>
    /\ Len(atom.staged) >= StateChanges + 2
    /\ atom.staged[1].k = "Begin" /\ atom.staged[1].c = "Internal"
    /\ \A i \in 2..(StateChanges + 1) : atom.staged[i].k = "StateChange"
    /\ Last(atom.staged).k = "End"

(***************************************************************************)
(* Roots.                                                                  *)
(***************************************************************************)
\* the handler of the last atom, \sqrt, succeeded
SqrtStaged == atom.count > 0 /\ atom.cs = N_sqrt /\ atom.hok

\* the optional argument that follows \sqrt
SqrtOptional == optional_argument(atom.hs, atom.he)

\* the instruction stack once one atom, suffixes included, is parsed from the
\* view s..e as the only pending input
AfterOneAtom(s, e) ==
  ParseAtom([Parser EXCEPT !.is = <<SubGroup(s, e, FALSE)>>, !.buf = <<>>]).st.is

\* nothing of the pending input is left at the bottom of the stack q
Exhausted(q) == q = <<>> \/ q[1].t # "sub" \/ q[1].s = q[1].e

\* the staged instruction r is one child: an event, or a pending input that
\* holds exactly one atom
OneChild(r) ==
  r.t = "sub" => (r.s < r.e /\ Exhausted(AfterOneAtom(r.s, r.e)))

\* the staged instructions from i on are exactly n children, and no pending
\* input outside a group holds several atoms
StagedChildren(q, i, n) ==
  /\ ChildrenEnd(q, i, n) = Len(q) + 1
  /\ \A j \in i..Len(q) : OpenGroups(SubSeq(q, i, j - 1)).open = <<>> => OneChild(q[j])

\* C24: \sqrt[i]{r} stages Visual(Root) followed by exactly two children, the
\* radicand r then the index i, each one leaf or one balanced group even when
\* it holds several atoms; \sqrt{r} stages Visual(SquareRoot) followed by the
\* radicand only.
C24_RootChildren ==
  SqrtStaged =>
    IF SqrtOptional.some
      THEN /\ atom.staged[1] = Ev("Visual", "Root", "")
           /\ StagedChildren(atom.staged, 2, 2)
           /\ Last(atom.staged).t = "sub" => Last(atom.staged).s = SqrtOptional.s
    ELSE /\ atom.staged[1] = Ev("Visual", "SquareRoot", "")
         /\ StagedChildren(atom.staged, 2, 1)

(***************************************************************************)
(* Environments.                                                           *)
(***************************************************************************)
\* the argument that follows \begin, and the environment name it holds
BeginName == argument(atom.hs, atom.he)
Environment == Slice(BeginName.s, BeginName.e)

\* the last atom is \begin followed by a brace group
BeginRead == atom.count > 0 /\ atom.cs = N_begin /\ BeginName.err = "OK" /\ BeginName.group

DelimitedMatrices == {N_pmatrix, N_bmatrix, N_vmatrix, N_Vmatrix, N_Bmatrix}
\* the events that open the environment env, and those that close it
Opening(env) ==
  (IF env \in DelimitedMatrices
     THEN <<Ev("Begin", "LeftRight",
                CASE env = N_pmatrix -> "()" [] env = N_bmatrix -> "[]"
                  [] env = N_vmatrix -> "||" [] env = N_Vmatrix -> "VV"
                  [] OTHER -> "{}")>>
   ELSE <<>>)
  \o <<Ev("Begin", CASE env = N_array -> "Array" [] env = N_cases -> "Cases"
                     [] env = N_align -> "Align" [] OTHER -> "Matrix", "")>>
  \o (IF env = N_smallmatrix THEN <<Ev("StateChange", "Style", "Text")>> ELSE <<>>)

Closing(env) ==
  <<Ev("End", "", "")>> \o (IF env \in DelimitedMatrices THEN <<Ev("End", "", "")>> ELSE <<>>)

\* the staged instruction r is a pending input with alignment allowed that
\* ends where \end{env} starts
EnvironmentBody(r, env) ==
  /\ r.t = "sub" /\ r.al
  /\ BeginName.rest <= r.s /\ r.s <= r.e
  /\ StartsWith(r.e, atom.he, M_end(env))

\* C25: \begin{env} for the ten environments stages Begin(LeftRight(o, c)) for
\* the five delimited matrices only, Begin(kind), StateChange(Style(Text)) for
\* smallmatrix only, the body as a pending input with alignment allowed, End,
\* and a second End exactly when the wrapper was opened; any other name yields
\* Err(Environment) with nothing staged.
C25_EnvironmentStaging ==
  /\ (BeginRead /\ atom.hok) =>
       /\ Environment \in Environments
       /\ Len(atom.staged) = Len(Opening(Environment)) + 1 + Len(Closing(Environment))
       /\ SubSeq(atom.staged, 1, Len(Opening(Environment))) = Opening(Environment)
       /\ EnvironmentBody(atom.staged[Len(Opening(Environment)) + 1], Environment)
       /\ SubSeq(atom.staged, Len(Opening(Environment)) + 2, Len(atom.staged))
            = Closing(Environment)
  /\ (BeginRead /\ Environment \notin Environments) =>
       /\ ~atom.hok /\ atom.staged = <<>>
       /\ Last(results).t = "err" /\ Last(results).k = "Environment"

\* C25 witness: a delimited matrix was staged with its wrapper and both Ends.
C25_Witness ==
  /\ BeginRead /\ atom.hok /\ Environment \in DelimitedMatrices
  /\ Len(atom.staged) = 5 /\ atom.staged[5] = Ev("End", "", "")

(***************************************************************************)
(* Numbers.                                                                *)
(***************************************************************************)
\* C26: the view of every emitted Number event starts and ends with a digit:
\* the '.' and ',' characters that follow the last digit of the run, one or
\* several, are not part of the number.
C26_NumberEndsWithDigit ==
  \A i \in DOMAIN results :
    (results[i].t = "ev" /\ results[i].k = "Number") =>
      /\ results[i].s < results[i].e
      /\ Char(results[i].s) \in Digits
      /\ Char(results[i].e - 1) \in Digits

(***************************************************************************)
(* The staging buffer between calls.                                       *)
(***************************************************************************)
\* the Braces on the group stack, the pending inputs on the instruction stack
Braces == Cardinality({i \in DOMAIN group_stack : group_stack[i] = "Brace"})
PendingInputs ==
  Cardinality({i \in DOMAIN instruction_stack : instruction_stack[i].t = "sub"})

\* C27: whenever next has returned, the staging buffer is empty, so nothing
\* staged for an atom or suffix that failed is emitted by a later call, and
\* the Braces on the group stack are no more than the pending inputs on the
\* instruction stack.
C27_BufferEmptyOnReturn ==
  /\ buffer = <<>>
  /\ Braces <= PendingInputs

(***************************************************************************)
(* \overset and \underset.                                                 *)
(***************************************************************************)
\* the two arguments that follow the control sequence: the annotation is
\* written first, the base second
SetAnnotation == argument(atom.hs, atom.he)
SetBase == argument(SetAnnotation.rest, atom.he)

\* the handler of the last atom, \overset or \underset with two brace groups,
\* succeeded
SetStaged ==
  /\ atom.count > 0 /\ atom.cs \in {N_overset, N_underset} /\ atom.hok
  /\ SetAnnotation.group /\ SetBase.group

\* C28: for \overset{o}{b} and \underset{u}{b} the first child after the
\* Script marker is the base b and the second child is the annotation.
C28_BaseThenAnnotation ==
  SetStaged =>
    /\ atom.staged[1] = Ev("Script", IF atom.cs = N_overset THEN "Superscript"
                                     ELSE "Subscript", "AboveBelow")
    /\ ChildrenEnd(atom.staged, 2, 2) = Len(atom.staged) + 1
    /\ atom.staged[3].t = "sub" /\ atom.staged[3].s = SetBase.s
    /\ atom.staged[ChildrenEnd(atom.staged, 2, 1) + 1].s = SetAnnotation.s

(***************************************************************************)
(* A suffix character at the end of its pending input.                     *)
(***************************************************************************)
EmptyScript(c) == IF c = "^" THEN "EmptySuperscript" ELSE "EmptySubscript"

\* the last atom is followed by a script character that is the last character
\* of the pending input the atom was read from
FirstSuffixLast ==
  /\ atom.count > 0 /\ atom.hok
  /\ SuffixAt = atom.he - 1 /\ Char(SuffixAt) \in {"_", "^"}

\* the last atom has a first suffix, and the other script character follows
\* it as the last character of the pending input
SecondSuffixLast ==
  /\ atom.count > 0 /\ atom.hok
  /\ SuffixAt < atom.he - 1 /\ Char(SuffixAt) \in {"_", "^"}
  /\ FirstSuffix.err = "OK"
  /\ FirstSuffix.group \/ (~FirstSuffix.cs /\ Char(FirstSuffix.p) \in Letters)
  /\ AfterFirstSuffix = atom.he - 1
  /\ Char(AfterFirstSuffix) \in {"_", "^"} \ {Char(SuffixAt)}

\* C29: a suffix character that is the last character of its pending input
\* yields Err(EmptySuperscript) for '^' and Err(EmptySubscript) for '_': its
\* argument is never read from the enclosing input.
C29_SuffixAtEndIsEmpty ==
  /\ FirstSuffixLast =>
       /\ Last(results).t = "err"
       /\ Last(results).k = EmptyScript(Char(SuffixAt))
  /\ SecondSuffixLast =>
       /\ Last(results).t = "err"
       /\ Last(results).k = EmptyScript(Char(AfterFirstSuffix))

(***************************************************************************)
(* The context window on inputs of multi-byte characters.                  *)
(***************************************************************************)
\* the characters of the input that start at a byte offset in a..(b - 1)
CodePoints(a, b) ==
  Cardinality({n \in 1..Len(context.widths) :
                 /\ a <= ByteLen(SubSeq(context.widths, 1, n - 1))
                 /\ ByteLen(SubSeq(context.widths, 1, n - 1)) < b})

\* C30: error_with_context never panics, multi-byte characters included: both
\* bounds of its slice are character boundaries within the input, and the
\* window holds at most 15 code points before and at most 15 after the
\* error offset.
C30_ContextNeverPanics ==
  /\ context.pc # "panic"
  /\ context.pc \in {"slice", "some"} =>
       /\ 0 <= context.start /\ context.end <= ByteLen(context.widths)
       /\ is_char_boundary(context.widths, context.start)
       /\ is_char_boundary(context.widths, context.end)
       /\ CodePoints(context.start, context.distance) <= ContextWindow
       /\ CodePoints(context.distance, context.end) <= ContextWindow

====
